---- MODULE Spec2Model ----
(***************************************************************************)
(* Mini-CRM lead distribution (app/services.py, app/models.py,             *)
(* app/main.py).  The state is the content of the five tables; every      *)
(* action is one request handler, run to completion (one request at a      *)
(* time), together with the answer it gives, kept in `last`.  SpecRace     *)
(* alone runs two create requests at once, each in two steps, its state    *)
(* between the steps kept in `inflight`.                                   *)
(*                                                                         *)
(* Abstractions.  Row ids are positive integers, allocated as SQLite       *)
(* allocates an INTEGER PRIMARY KEY (largest id + 1).  A timestamp is      *)
(* either NULL or UtcNow: no code path compares two timestamps, only       *)
(* whether one is set.  Operator and source names, the source description  *)
(* and the contact message are never read by the engine and are left out.  *)
(* Optional strings of a lead are "None" (Python None), "" (the empty      *)
(* string) or a non-empty value.                                           *)
(***************************************************************************)
EXTENDS Integers, Sequences, FiniteSets, TLC

VARIABLES operators, sources, assignments, leads, contacts, last, inflight

vars == <<operators, sources, assignments, leads, contacts, last, inflight>>

db == <<operators, sources, assignments, leads, contacts>>

----------------------------------------------------------------------------
(* Bounds of the model: the contacts a behaviour of Spec or SpecLead creates,  *)
(* and the creations of a behaviour of SpecFresh                               *)

MaxContacts == 2
MaxCreations == 5

(* Input values the requests are drawn from *)
Capacities == {1, 2}
Weights == {1, 2}
ExtIds == {"x", "y"}

----------------------------------------------------------------------------
(* Values *)

NULL == 0

UtcNow == 1

Statuses == {"new", "in_progress", "closed"}

ActiveStatuses == {"new", "in_progress"}

Truthy(s) == s \notin {"None", ""}

MaxOf(S) == CHOOSE m \in S : \A n \in S : n <= m

NextId(ids) == IF ids = {} THEN 1 ELSE MaxOf(ids) + 1

RemoveKey(f, k) == [x \in (DOMAIN f) \ {k} |-> f[x]]

(* What a handler answers: ok is FALSE for an error answer (None, False, an     *)
(* exception); sel is the operator select_operator returned, NULL for none      *)
Response(op, ok, sel) == [op |-> op, ok |-> ok, sel |-> sel]

----------------------------------------------------------------------------
(* OperatorService *)

get_active_contacts_count_CountsClosed(operator_id) ==
    Cardinality({i \in DOMAIN contacts : contacts[i].operator_id = operator_id})

get_active_contacts_count_OnlyInProgress(operator_id) ==
    Cardinality({i \in DOMAIN contacts :
                    /\ contacts[i].operator_id = operator_id
                    /\ contacts[i].status \in {"in_progress"}})

get_active_contacts_count(operator_id) ==
    Cardinality({i \in DOMAIN contacts :
                    /\ contacts[i].operator_id = operator_id
                    /\ contacts[i].status \in ActiveStatuses})

----------------------------------------------------------------------------
(* DistributionService.select_operator *)

SourceAssignments(source_id) ==
    SelectSeq(assignments, LAMBDA a : a.source_id = source_id)

IsAvailable_IgnoresActive(a) ==
    get_active_contacts_count(a.operator_id)
        < operators[a.operator_id].max_active_contacts

IsAvailable_OffByOne(a) ==
    /\ operators[a.operator_id].is_active
    /\ get_active_contacts_count(a.operator_id)
           <= operators[a.operator_id].max_active_contacts

IsAvailable(a) ==
    /\ operators[a.operator_id].is_active
    /\ get_active_contacts_count(a.operator_id)
           < operators[a.operator_id].max_active_contacts

available_operators(source_id) ==
    SelectSeq(SourceAssignments(source_id), IsAvailable)

Repeat(x, n) == [i \in 1..n |-> x]

RECURSIVE Extend_OncePerOperator(_)
Extend_OncePerOperator(avail) ==
    IF avail = <<>> THEN <<>>
    ELSE <<Head(avail).operator_id>> \o Extend_OncePerOperator(Tail(avail))

RECURSIVE Extend(_)
Extend(avail) ==
    IF avail = <<>> THEN <<>>
    ELSE Repeat(Head(avail).operator_id, Head(avail).weight) \o Extend(Tail(avail))

weighted_choices(source_id) == Extend(available_operators(source_id))

select_operator_NoneWhenAnyBusy(source_id) ==
    IF SourceAssignments(source_id) = <<>> THEN {NULL}
    ELSE IF available_operators(source_id) # SourceAssignments(source_id) THEN {NULL}
    ELSE {weighted_choices(source_id)[i] : i \in DOMAIN weighted_choices(source_id)}

(* The operators random.choice may return; {NULL} when (None, info) is returned *)
select_operator(source_id) ==
    IF SourceAssignments(source_id) = <<>> THEN {NULL}
    ELSE IF available_operators(source_id) = <<>> THEN {NULL}
    ELSE {weighted_choices(source_id)[i] : i \in DOMAIN weighted_choices(source_id)}

(* The second value select_operator returns.  A reason names the operator (by  *)
(* its name in the code, which stands for the operator here) and, when the     *)
(* limit is reached, its load and its limit                                    *)
Inactive(operator_id) ==
    [operator_id |-> operator_id, reason |-> "inactive",
     current_load |-> NULL, max_active_contacts |-> NULL]

LimitReached(operator_id) ==
    [operator_id |-> operator_id, reason |-> "limit",
     current_load |-> get_active_contacts_count(operator_id),
     max_active_contacts |-> operators[operator_id].max_active_contacts]

RECURSIVE Reasons_FirstOnly(_)
Reasons_FirstOnly(assigned) ==
    IF assigned = <<>> THEN <<>>
    ELSE LET a == Head(assigned) IN
         IF ~operators[a.operator_id].is_active
         THEN <<Inactive(a.operator_id)>>
         ELSE IF get_active_contacts_count(a.operator_id)
                    >= operators[a.operator_id].max_active_contacts
         THEN <<LimitReached(a.operator_id)>>
         ELSE Reasons_FirstOnly(Tail(assigned))

RECURSIVE Reasons(_)
Reasons(assigned) ==
    IF assigned = <<>> THEN <<>>
    ELSE LET a == Head(assigned) IN
         IF ~operators[a.operator_id].is_active
         THEN <<Inactive(a.operator_id)>> \o Reasons(Tail(assigned))
         ELSE IF get_active_contacts_count(a.operator_id)
                    >= operators[a.operator_id].max_active_contacts
         THEN <<LimitReached(a.operator_id)>> \o Reasons(Tail(assigned))
         ELSE Reasons(Tail(assigned))

unavailable_reasons(source_id) == Reasons(SourceAssignments(source_id))

(* info: which of the three texts, and the reasons the second text joins *)
select_info(source_id) ==
    IF SourceAssignments(source_id) = <<>>
    THEN [text |-> "no operators assigned", reasons |-> <<>>]
    ELSE IF available_operators(source_id) = <<>>
    THEN [text |-> "no operators available",
          reasons |-> unavailable_reasons(source_id)]
    ELSE [text |-> "selected", reasons |-> <<>>]

RECURSIVE SumWeights(_)
SumWeights(avail) ==
    IF avail = <<>> THEN 0 ELSE Head(avail).weight + SumWeights(Tail(avail))

total_weight(source_id) == SumWeights(available_operators(source_id))

Percent_RoundsUp(weight, total) == (weight * 100 + total - 1) \div total

Percent(weight, total) == (weight * 100) \div total

(* What the text "selected ... from [...]" lists for each available operator *)
distribution_desc(source_id) ==
    [k \in DOMAIN available_operators(source_id) |->
        [operator_id |-> available_operators(source_id)[k].operator_id,
         weight |-> available_operators(source_id)[k].weight,
         percent |-> Percent(available_operators(source_id)[k].weight,
                             total_weight(source_id))]]

----------------------------------------------------------------------------
(* SourceService *)

get_by_code(code) ==
    IF \E id \in DOMAIN sources : sources[id].code = code
    THEN CHOOSE id \in DOMAIN sources :
            /\ sources[id].code = code
            /\ \A other \in DOMAIN sources : sources[other].code = code => id <= other
    ELSE NULL

----------------------------------------------------------------------------
(* LeadService.get_or_create *)

FindLead_ByName(external_id) ==
    IF \E i \in DOMAIN leads : leads[i].name = external_id
    THEN CHOOSE i \in DOMAIN leads :
            /\ leads[i].name = external_id
            /\ \A j \in DOMAIN leads : leads[j].name = external_id => i <= j
    ELSE NULL

FindLead(external_id) ==
    IF \E i \in DOMAIN leads : leads[i].external_id = external_id
    THEN CHOOSE i \in DOMAIN leads :
            /\ leads[i].external_id = external_id
            /\ \A j \in DOMAIN leads : leads[j].external_id = external_id => i <= j
    ELSE NULL

FillField(old, new) == IF Truthy(new) /\ ~Truthy(old) THEN new ELSE old

UpdateLead(lead, name, phone, email) ==
    [lead EXCEPT !.name = FillField(@, name),
                 !.phone = FillField(@, phone),
                 !.email = FillField(@, email)]

NewLead(external_id, name, phone, email) ==
    [external_id |-> external_id, name |-> name, phone |-> phone, email |-> email]

(* <<lead id, leads table afterwards, created a new lead>> *)
get_or_create(external_id, name, phone, email) ==
    LET found == FindLead(external_id) IN
    IF found # NULL
    THEN <<found,
           [leads EXCEPT ![found] = UpdateLead(@, name, phone, email)],
           FALSE>>
    ELSE <<Len(leads) + 1,
           Append(leads, NewLead(external_id, name, phone, email)),
           TRUE>>

----------------------------------------------------------------------------
(* ContactService *)

NewContact_AlwaysAssigned(lead_id, source_id, operator_id) ==
    [lead_id |-> lead_id,
     source_id |-> source_id,
     operator_id |-> operator_id,
     status |-> "new",
     assigned_at |-> UtcNow,
     closed_at |-> NULL]

NewContact(lead_id, source_id, operator_id) ==
    [lead_id |-> lead_id,
     source_id |-> source_id,
     operator_id |-> operator_id,
     status |-> "new",
     assigned_at |-> IF operator_id # NULL THEN UtcNow ELSE NULL,
     closed_at |-> NULL]

SourceUsable_IgnoresActive(code) == get_by_code(code) # NULL

SourceUsable(code) ==
    /\ get_by_code(code) # NULL
    /\ sources[get_by_code(code)].is_active

ContactCreate(external_id, code, name, phone, email) ==
    IF ~SourceUsable(code)
    THEN /\ last' = Response("create", FALSE, NULL)
         /\ UNCHANGED db
    ELSE LET source_id == get_by_code(code)
             got == get_or_create(external_id, name, phone, email)
         IN /\ leads' = got[2]
            /\ \E operator_id \in select_operator(source_id) :
                  /\ contacts' = Append(contacts,
                                        NewContact(got[1], source_id, operator_id))
                  /\ last' = Response("create", TRUE, operator_id)
            /\ UNCHANGED <<operators, sources, assignments>>

StatusUpdated_Unassigns(contact, new_status) ==
    [contact EXCEPT !.status = new_status,
                    !.closed_at = IF new_status = "closed" THEN UtcNow ELSE @,
                    !.operator_id = IF new_status = "closed" THEN NULL ELSE @]

StatusUpdated_NoClosedAt(contact, new_status) ==
    [contact EXCEPT !.status = new_status]

StatusUpdated(contact, new_status) ==
    [contact EXCEPT !.status = new_status,
                    !.closed_at = IF new_status = "closed" THEN UtcNow ELSE @]

UpdateStatus(contact_id, new_status) ==
    IF contact_id \notin DOMAIN contacts
    THEN /\ last' = Response("update_status", FALSE, NULL)
         /\ UNCHANGED db
    ELSE /\ contacts' = [contacts EXCEPT ![contact_id] = StatusUpdated(@, new_status)]
         /\ last' = Response("update_status", TRUE, NULL)
         /\ UNCHANGED <<operators, sources, assignments, leads>>

CanReassign_IgnoresClosed(contact_id) == contact_id \in DOMAIN contacts

CanReassign(contact_id) ==
    /\ contact_id \in DOMAIN contacts
    /\ contacts[contact_id].status # "closed"

Reassigned_KeepsTimestamp(contact, operator_id) ==
    [contact EXCEPT !.operator_id = operator_id,
                    !.assigned_at = IF operator_id # NULL THEN UtcNow ELSE @]

Reassigned(contact, operator_id) ==
    [contact EXCEPT !.operator_id = operator_id,
                    !.assigned_at = IF operator_id # NULL THEN UtcNow ELSE NULL]

Reassign_ExcludesPrevious(contact_id) ==
    IF ~CanReassign(contact_id)
    THEN /\ last' = Response("reassign", FALSE, NULL)
         /\ UNCHANGED db
    ELSE /\ \E operator_id \in
                 IF select_operator(contacts[contact_id].source_id)
                       \subseteq {contacts[contact_id].operator_id}
                 THEN {NULL}
                 ELSE select_operator(contacts[contact_id].source_id)
                         \ {contacts[contact_id].operator_id} :
               /\ contacts' = [contacts EXCEPT
                                  ![contact_id] = Reassigned(@, operator_id)]
               /\ last' = Response("reassign", TRUE, operator_id)
         /\ UNCHANGED <<operators, sources, assignments, leads>>

Reassign(contact_id) ==
    IF ~CanReassign(contact_id)
    THEN /\ last' = Response("reassign", FALSE, NULL)
         /\ UNCHANGED db
    ELSE /\ \E operator_id \in select_operator(contacts[contact_id].source_id) :
               /\ contacts' = [contacts EXCEPT
                                  ![contact_id] = Reassigned(@, operator_id)]
               /\ last' = Response("reassign", TRUE, operator_id)
         /\ UNCHANGED <<operators, sources, assignments, leads>>

----------------------------------------------------------------------------
(* ContactService.create as two requests at once run it: each request reads    *)
(* the source, resolves the lead and selects an operator in its own session,   *)
(* and inserts its contact later; nothing is locked in between                 *)

Workers == {1, 2}

Idle == [pc |-> "idle", lead_id |-> NULL, source_id |-> NULL,
         operator_id |-> NULL, current_load |-> 0]

NoRequests == [w \in Workers |-> Idle]

Selecting(lead_id, source_id, operator_id) ==
    [pc |-> "selected", lead_id |-> lead_id, source_id |-> source_id,
     operator_id |-> operator_id,
     current_load |-> IF operator_id = NULL THEN 0
                      ELSE get_active_contacts_count(operator_id)]

CreateSelect(w, external_id, code, name, phone, email) ==
    /\ inflight[w].pc = "idle"
    /\ IF ~SourceUsable(code)
       THEN /\ last' = Response("create", FALSE, NULL)
            /\ UNCHANGED <<db, inflight>>
       ELSE LET source_id == get_by_code(code)
                got == get_or_create(external_id, name, phone, email)
            IN /\ leads' = got[2]
               /\ \E operator_id \in select_operator(source_id) :
                     inflight' = [inflight EXCEPT
                                     ![w] = Selecting(got[1], source_id, operator_id)]
               /\ UNCHANGED <<operators, sources, assignments, contacts, last>>

CreatePersist(w) ==
    /\ inflight[w].pc = "selected"
    /\ contacts' = Append(contacts, NewContact(inflight[w].lead_id,
                                               inflight[w].source_id,
                                               inflight[w].operator_id))
    /\ last' = Response("create", TRUE, inflight[w].operator_id)
    /\ inflight' = [inflight EXCEPT ![w] = Idle]
    /\ UNCHANGED <<operators, sources, assignments, leads>>

(* The same request with get_or_create taken apart: the lookup (line 227),    *)
(* the commit of the new or updated lead (lines 231-252), the selection and    *)
(* the insert of the contact are separate steps of a session                   *)

(* the lead as the session loaded it, or NULL *)
LookedUp(external_id, source_id, name, phone, email) ==
    [pc |-> "looked_up", lead_id |-> FindLead(external_id),
     source_id |-> source_id, operator_id |-> NULL, current_load |-> 0,
     external_id |-> external_id, name |-> name, phone |-> phone, email |-> email,
     seen |-> IF FindLead(external_id) = NULL THEN NULL
              ELSE leads[FindLead(external_id)]]

Resolved(lead_id, source_id) ==
    [pc |-> "resolved", lead_id |-> lead_id, source_id |-> source_id,
     operator_id |-> NULL, current_load |-> 0]

CreateLookup(w, external_id, code, name, phone, email) ==
    /\ inflight[w].pc = "idle"
    /\ IF ~SourceUsable(code)
       THEN /\ last' = Response("create", FALSE, NULL)
            /\ UNCHANGED <<db, inflight>>
       ELSE /\ inflight' = [inflight EXCEPT
                               ![w] = LookedUp(external_id, get_by_code(code),
                                               name, phone, email)]
            /\ UNCHANGED <<db, last>>

(* the UPDATE writes the fields the session changed on the lead it loaded *)
WriteField(stored, loaded, new) ==
    IF Truthy(new) /\ ~Truthy(loaded) THEN new ELSE stored

(* unique=True on leads.external_id: the INSERT of a second row with the same  *)
(* external_id raises IntegrityError                                           *)
LeadInsertable_NoUniqueIndex(external_id) == TRUE

LeadInsertable(external_id) == FindLead(external_id) = NULL

(* IntegrityError is not caught (main.py catches ValueError only): the request *)
(* ends with an internal error and its session is closed without a commit      *)
CreateCommitLead(w) ==
    /\ inflight[w].pc = "looked_up"
    /\ LET r == inflight[w] IN
       IF r.lead_id # NULL
       THEN /\ leads' = [leads EXCEPT
                            ![r.lead_id] =
                                [@ EXCEPT
                                   !.name = WriteField(@, r.seen.name, r.name),
                                   !.phone = WriteField(@, r.seen.phone, r.phone),
                                   !.email = WriteField(@, r.seen.email, r.email)]]
            /\ inflight' = [inflight EXCEPT
                               ![w] = Resolved(r.lead_id, r.source_id)]
            /\ UNCHANGED <<operators, sources, assignments, contacts, last>>
       ELSE IF LeadInsertable(r.external_id)
       THEN /\ leads' = Append(leads, NewLead(r.external_id, r.name,
                                              r.phone, r.email))
            /\ inflight' = [inflight EXCEPT
                               ![w] = Resolved(Len(leads) + 1, r.source_id)]
            /\ UNCHANGED <<operators, sources, assignments, contacts, last>>
       ELSE /\ last' = Response("create_error", FALSE, NULL)
            /\ inflight' = [inflight EXCEPT ![w] = Idle]
            /\ UNCHANGED db

CreateChoose(w) ==
    /\ inflight[w].pc = "resolved"
    /\ \E operator_id \in select_operator(inflight[w].source_id) :
          inflight' = [inflight EXCEPT
                          ![w] = Selecting(inflight[w].lead_id,
                                           inflight[w].source_id, operator_id)]
    /\ UNCHANGED <<db, last>>

----------------------------------------------------------------------------
(* Administration: operators, sources, assignments *)

OperatorCreate(is_active, max_active_contacts) ==
    LET id == NextId(DOMAIN operators) IN
    /\ operators' = [x \in DOMAIN operators \cup {id} |->
                        IF x = id
                        THEN [is_active |-> is_active,
                              max_active_contacts |-> max_active_contacts]
                        ELSE operators[x]]
    /\ last' = Response("operator_create", TRUE, NULL)
    /\ UNCHANGED <<sources, assignments, leads, contacts>>

(* update_data: the fields the PATCH body sets (exclude_unset) *)
OperatorUpdated(operator, update_data) ==
    [f \in DOMAIN operator |->
        IF f \in DOMAIN update_data THEN update_data[f] ELSE operator[f]]

OperatorUpdate(operator_id, update_data) ==
    IF operator_id \notin DOMAIN operators
    THEN /\ last' = Response("operator_update", FALSE, NULL)
         /\ UNCHANGED db
    ELSE /\ operators' = [operators EXCEPT
                             ![operator_id] = OperatorUpdated(@, update_data)]
         /\ last' = Response("operator_update", TRUE, NULL)
         /\ UNCHANGED <<sources, assignments, leads, contacts>>

(* Operator.source_assignments cascades; Operator.contacts has no cascade, so  *)
(* the ORM sets operator_id of the operator's contacts to NULL                  *)
DetachOperator(contact, operator_id) ==
    IF contact.operator_id = operator_id
    THEN [contact EXCEPT !.operator_id = NULL]
    ELSE contact

OperatorDelete_NoCascade(operator_id) ==
    IF operator_id \notin DOMAIN operators
    THEN /\ last' = Response("operator_delete", FALSE, NULL)
         /\ UNCHANGED db
    ELSE /\ operators' = RemoveKey(operators, operator_id)
         /\ contacts' = [i \in DOMAIN contacts |->
                            DetachOperator(contacts[i], operator_id)]
         /\ last' = Response("operator_delete", TRUE, NULL)
         /\ UNCHANGED <<sources, assignments, leads>>

OperatorDelete(operator_id) ==
    IF operator_id \notin DOMAIN operators
    THEN /\ last' = Response("operator_delete", FALSE, NULL)
         /\ UNCHANGED db
    ELSE /\ operators' = RemoveKey(operators, operator_id)
         /\ assignments' = SelectSeq(assignments,
                                     LAMBDA a : a.operator_id # operator_id)
         /\ contacts' = [i \in DOMAIN contacts |->
                            DetachOperator(contacts[i], operator_id)]
         /\ last' = Response("operator_delete", TRUE, NULL)
         /\ UNCHANGED <<sources, leads>>

SourceCreate_NoDuplicateCheck(code, is_active) ==
    LET id == NextId(DOMAIN sources) IN
    /\ sources' = [x \in DOMAIN sources \cup {id} |->
                      IF x = id
                      THEN [code |-> code, is_active |-> is_active]
                      ELSE sources[x]]
    /\ last' = Response("source_create", TRUE, NULL)
    /\ UNCHANGED <<operators, assignments, leads, contacts>>

SourceCreate(code, is_active) ==
    IF get_by_code(code) # NULL
    THEN /\ last' = Response("source_create", FALSE, NULL)
         /\ UNCHANGED db
    ELSE LET id == NextId(DOMAIN sources) IN
         /\ sources' = [x \in DOMAIN sources \cup {id} |->
                           IF x = id
                           THEN [code |-> code, is_active |-> is_active]
                           ELSE sources[x]]
         /\ last' = Response("source_create", TRUE, NULL)
         /\ UNCHANGED <<operators, assignments, leads, contacts>>

SourceUpdate(source_id, is_active) ==
    IF source_id \notin DOMAIN sources
    THEN /\ last' = Response("source_update", FALSE, NULL)
         /\ UNCHANGED db
    ELSE /\ sources' = [sources EXCEPT ![source_id].is_active = is_active]
         /\ last' = Response("source_update", TRUE, NULL)
         /\ UNCHANGED <<operators, assignments, leads, contacts>>

SourceReferenced_Never(source_id) == FALSE

(* Source.contacts has no cascade: the ORM would set source_id of the source's *)
(* contacts to NULL, which the NOT NULL column refuses, and the delete fails  *)
SourceReferenced(source_id) ==
    \E i \in DOMAIN contacts : contacts[i].source_id = source_id

SourceDelete(source_id) ==
    IF source_id \notin DOMAIN sources \/ SourceReferenced(source_id)
    THEN /\ last' = Response("source_delete", FALSE, NULL)
         /\ UNCHANGED db
    ELSE /\ sources' = RemoveKey(sources, source_id)
         /\ assignments' = SelectSeq(assignments,
                                     LAMBDA a : a.source_id # source_id)
         /\ last' = Response("source_delete", TRUE, NULL)
         /\ UNCHANGED <<operators, leads, contacts>>

FindAssignment(operator_id, source_id) ==
    IF \E i \in DOMAIN assignments :
          /\ assignments[i].operator_id = operator_id
          /\ assignments[i].source_id = source_id
    THEN CHOOSE i \in DOMAIN assignments :
            /\ assignments[i].operator_id = operator_id
            /\ assignments[i].source_id = source_id
            /\ \A j \in DOMAIN assignments :
                  (/\ assignments[j].operator_id = operator_id
                   /\ assignments[j].source_id = source_id) => i <= j
    ELSE NULL

create_or_update_AlwaysInserts(operator_id, source_id, weight) ==
    Append(assignments, [operator_id |-> operator_id,
                         source_id |-> source_id,
                         weight |-> weight])

create_or_update(operator_id, source_id, weight) ==
    LET existing == FindAssignment(operator_id, source_id) IN
    IF existing # NULL
    THEN [assignments EXCEPT ![existing].weight = weight]
    ELSE Append(assignments, [operator_id |-> operator_id,
                              source_id |-> source_id,
                              weight |-> weight])

AssignmentCreateOrUpdate(operator_id, source_id, weight) ==
    IF operator_id \notin DOMAIN operators \/ source_id \notin DOMAIN sources
    THEN /\ last' = Response("assign", FALSE, NULL)
         /\ UNCHANGED db
    ELSE /\ assignments' = create_or_update(operator_id, source_id, weight)
         /\ last' = Response("assign", TRUE, NULL)
         /\ UNCHANGED <<operators, sources, leads, contacts>>

RemoveAt(s, i) == SubSeq(s, 1, i - 1) \o SubSeq(s, i + 1, Len(s))

AssignmentDelete(operator_id, source_id) ==
    LET existing == FindAssignment(operator_id, source_id) IN
    IF existing = NULL
    THEN /\ last' = Response("unassign", FALSE, NULL)
         /\ UNCHANGED db
    ELSE /\ assignments' = RemoveAt(assignments, existing)
         /\ last' = Response("unassign", TRUE, NULL)
         /\ UNCHANGED <<operators, sources, leads, contacts>>

----------------------------------------------------------------------------
(* Requests the specifications draw from *)

ContactIds == 1..MaxContacts

(* "d" is the code of no source *)
RequestCodes == {"a", "b", "c", "d"}

(* The create requests of each specification:                                  *)
(* <<lead_external_id, source_code, lead_name, lead_phone, lead_email>>        *)
EngineRequests == {<<"x", c, "None", "None", "None">> : c \in RequestCodes}

FreshRequests == {<<e, "a", "None", "None", "None">> : e \in ExtIds}

LeadRequests ==
    {<<e, c, n, p, "None">> :
        e \in ExtIds, c \in RequestCodes,
        n \in {"None", "", "v1"}, p \in {"None", "v2"}}

CreateRequests == EngineRequests \cup FreshRequests \cup LeadRequests

(* The operator updates of Spec, <<operator_id, update_data>>: either operator *)
(* is switched on or off, and the capacity of operator 2 is changed            *)
OperatorUpdates ==
    {<<o, [is_active |-> b]>> : o \in {1, 2}, b \in BOOLEAN}
        \cup {<<2, [max_active_contacts |-> c]>> : c \in Capacities}

(* The database after the administrator has created two operators, the sources *)
(* "a", "b" and the inactive "c", and assigned operators to sources            *)
Operator(is_active, max_active_contacts) ==
    [is_active |-> is_active, max_active_contacts |-> max_active_contacts]

Source(code, is_active) == [code |-> code, is_active |-> is_active]

Assignment(operator_id, source_id, weight) ==
    [operator_id |-> operator_id, source_id |-> source_id, weight |-> weight]

ThreeSources ==
    (1 :> Source("a", TRUE)) @@ (2 :> Source("b", TRUE)) @@ (3 :> Source("c", FALSE))

(* operator 1 on "a"; operator 2 on "a" and "b" *)
SharedAssignments ==
    <<Assignment(1, 1, 1), Assignment(2, 1, 2), Assignment(2, 2, 1)>>

(* operator 1 on "a"; nobody on "b" *)
SingleAssignment == <<Assignment(1, 1, 2)>>

Init ==
    /\ operators = (1 :> Operator(TRUE, 1)) @@ (2 :> Operator(TRUE, 1))
    /\ sources = ThreeSources
    /\ assignments \in {SharedAssignments, SingleAssignment}
    /\ leads = <<>>
    /\ contacts = <<>>
    /\ last = Response("init", TRUE, NULL)
    /\ inflight = NoRequests

Next ==
    \/ \E r \in EngineRequests :
          /\ Len(contacts) < MaxContacts
          /\ ContactCreate(r[1], r[2], r[3], r[4], r[5])
          /\ UNCHANGED inflight
    \/ \E i \in ContactIds, s \in Statuses :
          UpdateStatus(i, s) /\ UNCHANGED inflight
    \/ \E i \in ContactIds : Reassign(i) /\ UNCHANGED inflight
    \/ \E u \in OperatorUpdates :
          OperatorUpdate(u[1], u[2]) /\ UNCHANGED inflight

Spec == Init /\ [][Next]_vars

(* A run of creations against source "a" alone, starting with no contacts:    *)
(* one or both operators assigned to it, all active, any capacities, weights  *)
FreshAssignments ==
    {<<Assignment(1, 1, w)>> : w \in Weights}
        \cup {<<Assignment(1, 1, w[1]), Assignment(2, 1, w[2])>> :
                 w \in Weights \X Weights}

InitFresh ==
    /\ operators \in [{1, 2} -> {Operator(TRUE, c) : c \in Capacities}]
    /\ sources = ThreeSources
    /\ assignments \in FreshAssignments
    /\ leads = <<>>
    /\ contacts = <<>>
    /\ last = Response("init", TRUE, NULL)
    /\ inflight = NoRequests

NextFresh ==
    \E r \in FreshRequests :
        /\ Len(contacts) < MaxCreations
        /\ ContactCreate(r[1], r[2], r[3], r[4], r[5])
        /\ UNCHANGED inflight

SpecFresh == InitFresh /\ [][NextFresh]_vars

(* Creations by two leads through the sources "a", "b", "c" and an unknown    *)
(* code, one operator serving "a" and "b"                                      *)
InitLead ==
    /\ operators = (1 :> Operator(TRUE, 1))
    /\ sources = ThreeSources
    /\ assignments = <<Assignment(1, 1, 1), Assignment(1, 2, 1)>>
    /\ leads = <<>>
    /\ contacts = <<>>
    /\ last = Response("init", TRUE, NULL)
    /\ inflight = NoRequests

NextLead ==
    \E r \in LeadRequests :
        /\ Len(contacts) < MaxContacts
        /\ ContactCreate(r[1], r[2], r[3], r[4], r[5])
        /\ UNCHANGED inflight

SpecLead == InitLead /\ [][NextLead]_vars

(* The administrator creates and deletes one operator, two sources and their   *)
(* assignments while contacts arrive through "a" and "b"; an id is used again  *)
(* after the row with the largest id is deleted                                *)
AdminCodes == {"a", "b"}

OperatorIds == {1}

SourceIds == {1, 2}

AdminRequests == {r \in EngineRequests : r[2] \in AdminCodes}

InitAdmin ==
    /\ operators = (1 :> Operator(TRUE, 1))
    /\ sources = (1 :> Source("a", TRUE))
    /\ assignments = <<>>
    /\ leads = <<>>
    /\ contacts = <<>>
    /\ last = Response("init", TRUE, NULL)
    /\ inflight = NoRequests

NextAdmin ==
    \/ /\ NextId(DOMAIN operators) \in OperatorIds
       /\ OperatorCreate(TRUE, 1)
       /\ UNCHANGED inflight
    \/ \E o \in OperatorIds : OperatorDelete(o) /\ UNCHANGED inflight
    \/ \E c \in AdminCodes :
          /\ get_by_code(c) # NULL \/ NextId(DOMAIN sources) \in SourceIds
          /\ SourceCreate(c, TRUE)
          /\ UNCHANGED inflight
    \/ \E s \in SourceIds, b \in BOOLEAN :
          SourceUpdate(s, b) /\ UNCHANGED inflight
    \/ \E s \in SourceIds : SourceDelete(s) /\ UNCHANGED inflight
    \/ \E o \in OperatorIds, s \in SourceIds, w \in Weights :
          AssignmentCreateOrUpdate(o, s, w) /\ UNCHANGED inflight
    \/ \E o \in OperatorIds, s \in SourceIds :
          AssignmentDelete(o, s) /\ UNCHANGED inflight
    \/ \E r \in AdminRequests :
          /\ Len(contacts) < MaxContacts
          /\ ContactCreate(r[1], r[2], r[3], r[4], r[5])
          /\ UNCHANGED inflight
    \/ \E i \in ContactIds : Reassign(i) /\ UNCHANGED inflight

SpecAdmin == InitAdmin /\ [][NextAdmin]_vars

(* Two create requests at once, and status updates, on the database of Init    *)
InFlight == {w \in Workers : inflight[w].pc # "idle"}

NextRace ==
    \/ \E w \in Workers, r \in EngineRequests :
          /\ Len(contacts) + Cardinality(InFlight) < MaxContacts
          /\ CreateSelect(w, r[1], r[2], r[3], r[4], r[5])
    \/ \E w \in Workers : CreatePersist(w)
    \/ \E i \in ContactIds, s \in Statuses :
          UpdateStatus(i, s) /\ UNCHANGED inflight

SpecRace == Init /\ [][NextRace]_vars

(* Two create requests at once with get_or_create taken apart, on the         *)
(* database of Init                                                            *)
LeadRaceRequests ==
    {<<e, "a", n, "None", "None">> : e \in ExtIds, n \in {"None", "v1"}}

NextLeadRace ==
    \/ \E w \in Workers, r \in LeadRaceRequests :
          /\ Len(contacts) + Cardinality(InFlight) < MaxContacts
          /\ CreateLookup(w, r[1], r[2], r[3], r[4], r[5])
    \/ \E w \in Workers : CreateCommitLead(w)
    \/ \E w \in Workers : CreateChoose(w)
    \/ \E w \in Workers : CreatePersist(w)

SpecLeadRace == Init /\ [][NextLeadRace]_vars

(* Creations against source "a" with three operators of capacity 1 assigned to *)
(* it, under any weights from small ones to the largest the schema admits      *)
ReportWeights == {1, 2, 3, 1000}

InitReport ==
    /\ operators = [o \in {1, 2, 3} |-> Operator(TRUE, 1)]
    /\ sources = ThreeSources
    /\ assignments \in {<<Assignment(1, 1, w[1]), Assignment(2, 1, w[2]),
                           Assignment(3, 1, w[3])>> :
                            w \in ReportWeights \X ReportWeights \X ReportWeights}
    /\ leads = <<>>
    /\ contacts = <<>>
    /\ last = Response("init", TRUE, NULL)
    /\ inflight = NoRequests

NextReport ==
    \E r \in FreshRequests :
        /\ Len(contacts) < MaxContacts
        /\ ContactCreate(r[1], r[2], r[3], r[4], r[5])
        /\ UNCHANGED inflight

SpecReport == InitReport /\ [][NextReport]_vars

----------------------------------------------------------------------------
(* Vocabulary of the claims, stated on the tables and not through the code *)

Workload(o) ==
    Cardinality({i \in DOMAIN contacts :
                    contacts[i].operator_id = o /\ contacts[i].status # "closed"})

AssignedTo(o, s) ==
    \E k \in DOMAIN assignments :
        assignments[k].operator_id = o /\ assignments[k].source_id = s

EligibleFor(o, s) ==
    /\ o \in DOMAIN operators
    /\ AssignedTo(o, s)
    /\ operators[o].is_active
    /\ Workload(o) < operators[o].max_active_contacts

Selected == last.ok /\ last.sel # NULL

(* C1: an operator that select_operator returns, for a create or a reassign,   *)
(* is at that moment assigned to the source, active, and has a live workload   *)
(* strictly below its max_active_contacts.                                     *)
C1_SelectedIsEligible ==
    [][/\ (last'.op = "create" /\ Selected')
            => EligibleFor(last'.sel, contacts'[Len(contacts')].source_id)
       /\ \A i \in DOMAIN contacts :
            (last'.op = "reassign" /\ Selected' /\ Reassign(i))
                => EligibleFor(last'.sel, contacts[i].source_id)]_vars

(* A create was given operator 1 while operator 2, assigned to the same source, *)
(* was inactive or at capacity.                                                *)
C1_Witness ==
    /\ last.op = "create" /\ Selected /\ last.sel = 1
    /\ AssignedTo(2, contacts[Len(contacts)].source_id)
    /\ \/ ~operators[2].is_active
       \/ Workload(2) >= operators[2].max_active_contacts

(* C2: no create and no reassign leaves the operator it attached the contact   *)
(* to with more new/in_progress contacts than its max_active_contacts.         *)
C2_AttachWithinCapacity ==
    [][\A o \in DOMAIN operators :
          (last'.op \in {"create", "reassign"} /\ Selected' /\ last'.sel = o)
              => Workload(o)' <= operators'[o].max_active_contacts]_vars

(* A reassign moved a contact to an operator that is now exactly at capacity.  *)
C2_Witness ==
    /\ last.op = "reassign" /\ Selected
    /\ Workload(last.sel) = operators[last.sel].max_active_contacts
    /\ \E i \in DOMAIN contacts :
          contacts[i].operator_id # last.sel /\ contacts[i].operator_id # NULL

RECURSIVE SumCapacity(_)
SumCapacity(assigned) ==
    IF assigned = <<>> THEN 0
    ELSE operators[Head(assigned).operator_id].max_active_contacts
            + SumCapacity(Tail(assigned))

(* C3: on a source whose assigned operators are all active and hold no        *)
(* contacts, in a run of creations only, each of the first C_1+...+C_k         *)
(* creations gets an operator, no operator exceeds its capacity, and every     *)
(* later creation gets none, whatever the draws are.                           *)
C3_FillThenNull ==
    /\ \A i \in DOMAIN contacts :
          (contacts[i].operator_id # NULL) <=> (i <= SumCapacity(assignments))
    /\ \A o \in DOMAIN operators :
          Workload(o) <= operators[o].max_active_contacts

(* Two operators of capacities 2 and 1 are full after three creations and the *)
(* fourth creation got no operator.                                            *)
C3_Witness ==
    /\ Len(assignments) = 2
    /\ operators[1].max_active_contacts = 2
    /\ operators[2].max_active_contacts = 1
    /\ Len(contacts) = 4
    /\ Workload(1) = 2 /\ Workload(2) = 1
    /\ last.op = "create" /\ last.ok /\ last.sel = NULL

SourceOfCode(c) == {id \in DOMAIN sources : sources[id].code = c}

ActiveSourceOfCode(c) == {id \in SourceOfCode(c) : sources[id].is_active}

(* C4: a create against an existing, active source succeeds and adds exactly   *)
(* one contact, with status new, whether or not an operator is eligible: with  *)
(* none eligible the contact has no operator and no assigned_at, and with an   *)
(* operator selected it has that operator and assigned_at set.                 *)
C4_CreateAlwaysPersists ==
    [][last'.op = "create" =>
        \A r \in CreateRequests : LET c == r[2] IN
          (ActiveSourceOfCode(c) # {} /\ ContactCreate(r[1], c, r[3], r[4], r[5])) =>
             /\ last'.ok
             /\ Len(contacts') = Len(contacts) + 1
             /\ SubSeq(contacts', 1, Len(contacts)) = contacts
             /\ contacts'[Len(contacts')].status = "new"
             /\ contacts'[Len(contacts')].source_id \in ActiveSourceOfCode(c)
             /\ contacts'[Len(contacts')].operator_id = last'.sel
             /\ (contacts'[Len(contacts')].assigned_at = NULL) <=> (last'.sel = NULL)
             /\ (\A o \in DOMAIN operators :
                    \A src \in ActiveSourceOfCode(c) : ~EligibleFor(o, src))
                  => last'.sel = NULL]_vars

(* A create on an active source whose operators are all at capacity or         *)
(* inactive was accepted and stored without operator.                          *)
C4_Witness ==
    /\ last.op = "create" /\ last.ok /\ last.sel = NULL
    /\ contacts[Len(contacts)].operator_id = NULL
    /\ contacts[Len(contacts)].assigned_at = NULL
    /\ \E o \in DOMAIN operators : AssignedTo(o, contacts[Len(contacts)].source_id)

RECURSIVE SumOver(_, _)
SumOver(S, f) ==
    IF S = {} THEN 0
    ELSE LET x == CHOOSE y \in S : TRUE IN f[x] + SumOver(S \ {x}, f)

ActiveIn(o, src) ==
    Cardinality({i \in DOMAIN contacts :
                    /\ contacts[i].operator_id = o
                    /\ contacts[i].source_id = src
                    /\ contacts[i].status \in {"new", "in_progress"}})

(* C5: get_active_contacts_count(operator) is the number of contacts of that   *)
(* operator with status new or in_progress, over all sources together; the    *)
(* operator row holds no counter of its own.                                   *)
C5_CountIsLive ==
    \A o \in DOMAIN operators :
        /\ get_active_contacts_count(o)
             = SumOver(DOMAIN sources, [src \in DOMAIN sources |-> ActiveIn(o, src)])
        /\ DOMAIN operators[o] = {"is_active", "max_active_contacts"}

(* Operator 2 holds one active contact from source 1 and one from source 2.    *)
C5_Witness ==
    /\ get_active_contacts_count(2) = 2
    /\ ActiveIn(2, 1) = 1
    /\ ActiveIn(2, 2) = 1

ForwardTransitions ==
    {<<"new", "in_progress">>, <<"in_progress", "closed">>, <<"new", "closed">>}

(* C6: a contact's status changes only along new -> in_progress,               *)
(* in_progress -> closed or new -> closed, and a closed contact's status      *)
(* never changes again.                                                        *)
C6_StatusOnlyForward ==
    [][\A i \in DOMAIN contacts :
          /\ contacts'[i].status # contacts[i].status
                => <<contacts[i].status, contacts'[i].status>> \in ForwardTransitions
          /\ contacts[i].status = "closed" => contacts'[i].status = "closed"]_vars

(* C7: a reassign of a closed contact, or of a contact id that does not exist, *)
(* gives an error answer and changes no table: no contact's operator_id,       *)
(* assigned_at or status, and so no operator's workload.                       *)
C7_RefusedReassignChangesNothing ==
    [][\A i \in ContactIds :
          (/\ last'.op = "reassign"
           /\ (i \notin DOMAIN contacts \/ contacts[i].status = "closed")
           /\ Reassign(i))
             => /\ ~last'.ok
                /\ last'.sel = NULL
                /\ contacts' = contacts
                /\ \A o \in DOMAIN operators : Workload(o)' = Workload(o)
                /\ UNCHANGED db]_vars

(* Every contact id exists and a reassign was refused: its contact is closed.  *)
C7_Witness ==
    /\ last.op = "reassign" /\ ~last.ok
    /\ Len(contacts) = MaxContacts
    /\ \E i \in DOMAIN contacts :
          contacts[i].status = "closed" /\ contacts[i].operator_id # NULL
    /\ \A i \in DOMAIN contacts :
          contacts[i].status # "closed" => contacts[i].operator_id = NULL

(* C8: a reassign of a new or in_progress contact sets its operator_id to what *)
(* select_operator gives for the contact's own source and assigned_at with it  *)
(* (both NULL when no operator is eligible), and changes nothing else.         *)
C8_ReassignFrame ==
    [][\A i \in DOMAIN contacts :
          (/\ last'.op = "reassign"
           /\ contacts[i].status \in {"new", "in_progress"}
           /\ Reassign(i))
             => /\ last'.ok
                /\ last'.sel \in select_operator(contacts[i].source_id)
                /\ last'.sel # NULL => EligibleFor(last'.sel, contacts[i].source_id)
                /\ last'.sel = NULL =>
                      \A o \in DOMAIN operators :
                          ~EligibleFor(o, contacts[i].source_id)
                /\ contacts'[i].operator_id = last'.sel
                /\ (contacts'[i].assigned_at = NULL) <=> (last'.sel = NULL)
                /\ contacts'[i].status = contacts[i].status
                /\ contacts'[i].lead_id = contacts[i].lead_id
                /\ contacts'[i].source_id = contacts[i].source_id
                /\ contacts'[i].closed_at = contacts[i].closed_at
                /\ \A j \in DOMAIN contacts : j # i => contacts'[j] = contacts[j]
                /\ DOMAIN contacts' = DOMAIN contacts
                /\ UNCHANGED <<operators, sources, assignments, leads>>]_vars

(* A reassign found no eligible operator and left a reopened contact, which    *)
(* had an operator, without operator and without assigned_at.                  *)
C8_Witness ==
    /\ last.op = "reassign" /\ last.ok /\ last.sel = NULL
    /\ \E i \in DOMAIN contacts :
          /\ contacts[i].status \in {"new", "in_progress"}
          /\ contacts[i].operator_id = NULL
          /\ contacts[i].assigned_at = NULL
          /\ contacts[i].closed_at # NULL
          /\ \E o \in DOMAIN operators : AssignedTo(o, contacts[i].source_id)

(* C9: a create whose source_code is the code of no source, or of an inactive  *)
(* source, gives an error answer and changes no table: no contact is added    *)
(* and no lead is added or modified.                                           *)
C9_RejectedCreateChangesNothing ==
    [][last'.op = "create" =>
        \A r \in CreateRequests : LET c == r[2] IN
          (ActiveSourceOfCode(c) = {} /\ ContactCreate(r[1], c, r[3], r[4], r[5]))
             => /\ ~last'.ok
                /\ contacts' = contacts
                /\ leads' = leads
                /\ UNCHANGED db]_vars

(* A create was rejected while a lead with an unset name was stored.           *)
C9_Witness ==
    /\ last.op = "create" /\ ~last.ok
    /\ Len(contacts) = 1
    /\ \E i \in DOMAIN leads : leads[i].name = "None" /\ leads[i].phone = "None"

UniqueExternalIds ==
    \A i, j \in DOMAIN leads :
        leads[i].external_id = leads[j].external_id => i = j

KnownLeads(e) == {i \in DOMAIN leads : leads[i].external_id = e}

(* C10: there is at most one lead per external_id; a create with an unseen    *)
(* external_id adds exactly one lead, a create with a known external_id adds  *)
(* none and attaches the new contact to the existing lead, through whichever   *)
(* source it comes.                                                            *)
C10_OneLeadPerExternalId ==
    /\ []UniqueExternalIds
    /\ [][(last'.op = "create" /\ last'.ok) =>
            \A r \in CreateRequests : LET e == r[1] IN
              ContactCreate(e, r[2], r[3], r[4], r[5]) =>
                 /\ \A i \in DOMAIN leads :
                       leads'[i].external_id = leads[i].external_id
                 /\ KnownLeads(e) = {} =>
                       /\ Len(leads') = Len(leads) + 1
                       /\ leads'[Len(leads')].external_id = e
                       /\ contacts'[Len(contacts')].lead_id = Len(leads')
                 /\ KnownLeads(e) # {} =>
                       /\ Len(leads') = Len(leads)
                       /\ contacts'[Len(contacts')].lead_id \in KnownLeads(e)]_vars

(* One lead has two contacts, which came through two different sources.        *)
C10_Witness ==
    /\ Len(leads) = 1
    /\ Len(contacts) = 2
    /\ contacts[1].lead_id = contacts[2].lead_id
    /\ contacts[1].source_id # contacts[2].source_id

LeadFields == {"name", "phone", "email"}

(* C11: once name, phone or email of a lead holds a value that a creation     *)
(* supplied (anything but None, the empty string included), no later creation *)
(* changes that field; a later creation changes only fields that are unset.   *)
C11_FirstSeenWins ==
    [][\A i \in DOMAIN leads : \A f \in LeadFields :
          leads[i][f] # "None" => leads'[i][f] = leads[i][f]]_vars

PairRows(o, s) ==
    {k \in DOMAIN assignments :
        assignments[k].operator_id = o /\ assignments[k].source_id = s}

UniquePairs ==
    \A i, j \in DOMAIN assignments :
        (/\ assignments[i].operator_id = assignments[j].operator_id
         /\ assignments[i].source_id = assignments[j].source_id) => i = j

(* C12: there is at most one assignment per (operator, source) pair; an       *)
(* accepted create_or_update for a pair leaves exactly one assignment of that  *)
(* pair, carrying the weight of this call, and for a pair that already had an *)
(* assignment it adds no row and touches no other assignment.                 *)
C12_OneAssignmentPerPair ==
    /\ []UniquePairs
    /\ [][\A o \in OperatorIds, s \in SourceIds, w \in Weights :
            (AssignmentCreateOrUpdate(o, s, w) /\ last'.ok)
               => /\ Cardinality(PairRows(o, s)') = 1
                  /\ \A k \in PairRows(o, s)' : assignments'[k].weight = w
                  /\ PairRows(o, s) # {} =>
                        /\ Len(assignments') = Len(assignments)
                        /\ PairRows(o, s)' = PairRows(o, s)
                        /\ \A k \in DOMAIN assignments :
                              k \notin PairRows(o, s)
                                 => assignments'[k] = assignments[k]]_vars

(* The operator is assigned to both sources, the latest call was an accepted   *)
(* assign, and the two assignments carry different weights.                    *)
C12_Witness ==
    /\ last.op = "assign" /\ last.ok
    /\ Len(assignments) = 2
    /\ PairRows(1, 1) = {1} /\ PairRows(1, 2) = {2}
    /\ assignments[1].weight = 2 /\ assignments[2].weight = 1

Occurrences(pool, o) == Cardinality({k \in DOMAIN pool : pool[k] = o})

WeightOf(o, s) == assignments[CHOOSE k \in PairRows(o, s) : TRUE].weight

Eligible(s) == {o \in DOMAIN operators : EligibleFor(o, s)}

(* C13: the pool select_operator draws from holds each eligible operator of   *)
(* the source exactly as many times as the weight of its assignment and holds *)
(* no other operator, so its size is the sum of the eligible weights; when the *)
(* eligible set is not empty, what the draw can return is exactly that set.    *)
C13_PoolHoldsWeights ==
    \A s \in DOMAIN sources :
        /\ \A o \in DOMAIN operators :
              Occurrences(weighted_choices(s), o)
                 = IF EligibleFor(o, s) THEN WeightOf(o, s) ELSE 0
        /\ \A k \in DOMAIN weighted_choices(s) : weighted_choices(s)[k] \in Eligible(s)
        /\ Len(weighted_choices(s))
              = SumOver(Eligible(s), [o \in Eligible(s) |-> WeightOf(o, s)])
        /\ Eligible(s) # {} => select_operator(s) = Eligible(s)

(* A create drew operator 2 from the pool of source 1, which still holds       *)
(* operator 1 once and operator 2 twice.                                       *)
C13_Witness ==
    /\ last.op = "create" /\ Selected /\ last.sel = 2
    /\ contacts[Len(contacts)].source_id = 1
    /\ Eligible(1) = {1, 2}
    /\ Occurrences(weighted_choices(1), 1) = 1
    /\ Occurrences(weighted_choices(1), 2) = 2
    /\ Len(weighted_choices(1)) = 3

(* C14: two create requests on the same source that run at once each attach    *)
(* their contact to the operator they selected, which each saw under capacity  *)
(* when it read the workloads, and the insert does not look at the workload    *)
(* again; so a state where an operator holds more active contacts than its     *)
(* max_active_contacts is reached (C14_Witness).                               *)
C14_RaceAssignsWhatItSaw ==
    [][\A w \in Workers :
          CreatePersist(w)
             => /\ contacts'[Len(contacts')].operator_id = inflight[w].operator_id
                /\ contacts'[Len(contacts')].status = "new"
                /\ \A o \in DOMAIN operators :
                      inflight[w].operator_id = o =>
                         /\ inflight[w].current_load
                               < operators[o].max_active_contacts
                         /\ Workload(o)' = Workload(o) + 1]_vars

(* Operator 1, whose max_active_contacts is 1, holds two contacts of source 1  *)
(* that were never closed: both requests selected it before either inserted.   *)
C14_Witness ==
    /\ Len(contacts) = 2
    /\ \A i \in DOMAIN contacts :
          /\ contacts[i].operator_id = 1
          /\ contacts[i].source_id = 1
          /\ contacts[i].status = "new"
          /\ contacts[i].closed_at = NULL
    /\ operators[1].max_active_contacts = 1
    /\ Workload(1) > operators[1].max_active_contacts

(* C15: update_status of an existing contact sets its status to the requested *)
(* one, sets closed_at when that status is closed and leaves it otherwise, and *)
(* changes nothing else: not the contact's operator_id, assigned_at, lead or   *)
(* source, no other contact and no other table; for a contact id that does     *)
(* not exist it answers None and changes no table.                             *)
C15_UpdateStatusFrame ==
    [][last'.op = "update_status" =>
        \A i \in ContactIds, st \in Statuses :
          (/\ i \in DOMAIN contacts => contacts'[i].status = st
           /\ UpdateStatus(i, st)) =>
             IF i \notin DOMAIN contacts
             THEN ~last'.ok /\ UNCHANGED db
             ELSE /\ last'.ok
                  /\ DOMAIN contacts' = DOMAIN contacts
                  /\ contacts'[i].status = st
                  /\ st = "closed" => contacts'[i].closed_at # NULL
                  /\ st # "closed" => contacts'[i].closed_at = contacts[i].closed_at
                  /\ contacts'[i].operator_id = contacts[i].operator_id
                  /\ contacts'[i].assigned_at = contacts[i].assigned_at
                  /\ contacts'[i].lead_id = contacts[i].lead_id
                  /\ contacts'[i].source_id = contacts[i].source_id
                  /\ \A j \in DOMAIN contacts : j # i => contacts'[j] = contacts[j]
                  /\ UNCHANGED <<operators, sources, assignments, leads>>]_vars

(* A status update left a contact in_progress that has an operator; the        *)
(* contact had been closed before and keeps its closed_at.                     *)
C15_Witness ==
    /\ last.op = "update_status" /\ last.ok
    /\ \E i \in DOMAIN contacts :
          /\ contacts[i].status = "in_progress"
          /\ contacts[i].operator_id # NULL
          /\ contacts[i].assigned_at # NULL
          /\ contacts[i].closed_at # NULL

ClosedHaveClosedAt ==
    \A i \in DOMAIN contacts :
        contacts[i].status = "closed" => contacts[i].closed_at # NULL

(* C16: every update_status to closed leaves the contact with status closed    *)
(* and closed_at set, and in every reachable state every closed contact has a  *)
(* closed_at.                                                                  *)
C16_ClosedHasClosedAt ==
    /\ []ClosedHaveClosedAt
    /\ [][\A i \in DOMAIN contacts :
            (last'.op = "update_status" /\ UpdateStatus(i, "closed"))
               => /\ contacts'[i].status = "closed"
                  /\ contacts'[i].closed_at = UtcNow]_vars

(* A contact that never had an operator was closed by the latest request.      *)
C16_Witness ==
    /\ last.op = "update_status" /\ last.ok
    /\ \E i \in DOMAIN contacts :
          /\ contacts[i].status = "closed"
          /\ contacts[i].closed_at # NULL
          /\ contacts[i].operator_id = NULL
          /\ contacts[i].assigned_at = NULL

ContactsOf(s) == {i \in DOMAIN contacts : contacts[i].source_id = s}

ContactsReferSources ==
    \A i \in DOMAIN contacts : contacts[i].source_id \in DOMAIN sources

(* C17: a delete of a source that at least one contact refers to fails and     *)
(* leaves the source, its assignments and all contacts as they were; in every  *)
(* reachable state every contact's source_id is the id of an existing source.  *)
C17_ReferencedSourceStays ==
    /\ []ContactsReferSources
    /\ [][last'.op = "source_delete" =>
            \A s \in SourceIds :
              (ContactsOf(s) # {} /\ SourceDelete(s))
                 => /\ ~last'.ok
                    /\ s \in DOMAIN sources'
                    /\ sources' = sources
                    /\ assignments' = assignments
                    /\ contacts' = contacts
                    /\ UNCHANGED db]_vars

(* The delete of a source that has a contact and an assignment was refused.    *)
C17_Witness ==
    /\ last.op = "source_delete" /\ ~last.ok
    /\ DOMAIN sources = {1, 2}
    /\ ContactsOf(2) # {}
    /\ PairRows(1, 2) # {}
    /\ ContactsOf(1) = {}

AssignmentsReferExisting ==
    \A k \in DOMAIN assignments :
        /\ assignments[k].operator_id \in DOMAIN operators
        /\ assignments[k].source_id \in DOMAIN sources

(* C18: a delete of an operator or of a source removes every assignment of it  *)
(* and no other; so every assignment refers to an existing operator and an     *)
(* existing source, and what select_operator can return for a source is an     *)
(* existing operator or none.                                                  *)
C18_DeleteCascades ==
    /\ [](/\ AssignmentsReferExisting
          /\ \A s \in DOMAIN sources :
                select_operator(s) \subseteq (DOMAIN operators \cup {NULL}))
    /\ [][/\ last'.op = "operator_delete" =>
               \A o \in DOMAIN operators :
                  OperatorDelete(o) =>
                     /\ o \notin DOMAIN operators'
                     /\ assignments'
                          = SelectSeq(assignments, LAMBDA a : a.operator_id # o)
          /\ (last'.op = "source_delete" /\ last'.ok) =>
               \A s \in DOMAIN sources :
                  SourceDelete(s) =>
                     /\ s \notin DOMAIN sources'
                     /\ assignments'
                          = SelectSeq(assignments, LAMBDA a : a.source_id # s)]_vars

(* The operator was deleted while a contact was attached to it; no assignment  *)
(* is left although both sources still exist, and an operator created after    *)
(* the delete, which got the same id, is assigned to nothing.                  *)
C18_Witness ==
    /\ last.op = "operator_create"
    /\ 1 \in DOMAIN operators
    /\ DOMAIN sources = {1, 2}
    /\ assignments = <<>>
    /\ \E i \in DOMAIN contacts :
          contacts[i].operator_id = NULL /\ contacts[i].assigned_at # NULL

UniqueCodes ==
    \A s, t \in DOMAIN sources : sources[s].code = sources[t].code => s = t

(* C19: no two sources have the same code; a create of a source whose code an  *)
(* existing source has is rejected and adds no source, and no update changes   *)
(* the code of a source.                                                       *)
C19_UniqueSourceCodes ==
    /\ []UniqueCodes
    /\ [][/\ last'.op = "source_create" =>
               \A c \in AdminCodes, b \in BOOLEAN :
                  (SourceOfCode(c) # {} /\ SourceCreate(c, b))
                     => ~last'.ok /\ sources' = sources /\ UNCHANGED db
          /\ last'.op \notin {"source_create", "source_delete"} =>
               /\ DOMAIN sources' = DOMAIN sources
               /\ \A s \in DOMAIN sources : sources'[s].code = sources[s].code]_vars

(* A create with the code of an existing source was rejected while two sources *)
(* exist, one of them switched off by an update.                               *)
C19_Witness ==
    /\ last.op = "source_create" /\ ~last.ok
    /\ DOMAIN sources = {1, 2}
    /\ sources[1].code # sources[2].code
    /\ ~sources[2].is_active

(* C20: select_operator returns no operator exactly when the source has no     *)
(* assigned operator that is active and under capacity, the source with no     *)
(* assignment included; when there is such an operator it returns one.  Every  *)
(* create answers accordingly.                                                 *)
C20_NoneIffNoEligible ==
    /\ [](\A s \in DOMAIN sources :
            /\ (NULL \in select_operator(s)) <=> (Eligible(s) = {})
            /\ select_operator(s) # {}
            /\ PairRows(1, s) \cup PairRows(2, s) = {} => select_operator(s) = {NULL})
    /\ [][(last'.op = "create" /\ last'.ok) =>
            \A s \in DOMAIN sources :
               contacts'[Len(contacts')].source_id = s
                  => ((last'.sel = NULL) <=> (Eligible(s) = {}))]_vars

(* Source 2 has no assignment and its contact got no operator, while the       *)
(* contact of source 1 got operator 1.                                         *)
C20_Witness ==
    /\ last.op = "create" /\ last.ok /\ last.sel = NULL
    /\ Len(contacts) = 2
    /\ contacts[1].source_id = 1 /\ contacts[1].operator_id = 1
    /\ contacts[2].source_id = 2 /\ contacts[2].operator_id = NULL
    /\ PairRows(1, 2) \cup PairRows(2, 2) = {}

AssignedOperators(s) == {o \in DOMAIN operators : AssignedTo(o, s)}

ReasonsFor(reasons, o) == {k \in DOMAIN reasons : reasons[k].operator_id = o}

(* C21: when a source has assignments and select_operator returns no operator, *)
(* its rationale holds exactly one exclusion reason for every assigned         *)
(* operator, the first and the later ones alike: "inactive" for an inactive    *)
(* operator, otherwise "limit" with the operator's load and capacity.          *)
C21_ReasonForEveryOperator ==
    \A s \in DOMAIN sources :
        (AssignedOperators(s) # {} /\ select_operator(s) = {NULL}) =>
           LET info == select_info(s) IN
           /\ info.text = "no operators available"
           /\ Len(info.reasons) = Cardinality(AssignedOperators(s))
           /\ \A o \in AssignedOperators(s) :
                 /\ Cardinality(ReasonsFor(info.reasons, o)) = 1
                 /\ \A k \in ReasonsFor(info.reasons, o) :
                       IF ~operators[o].is_active
                       THEN info.reasons[k] = Inactive(o)
                       ELSE /\ info.reasons[k].reason = "limit"
                            /\ info.reasons[k].current_load = Workload(o)
                            /\ info.reasons[k].max_active_contacts
                                  = operators[o].max_active_contacts
                            /\ Workload(o) >= operators[o].max_active_contacts

(* After two creates both operators of source 1 are at capacity and the next   *)
(* selection lists both, each with load 1 of 1.                                *)
C21_Witness ==
    /\ last.op = "create" /\ Selected
    /\ AssignedOperators(1) = {1, 2}
    /\ select_operator(1) = {NULL}
    /\ Len(select_info(1).reasons) = 2
    /\ \A k \in {1, 2} :
          /\ select_info(1).reasons[k].reason = "limit"
          /\ select_info(1).reasons[k].current_load = 1
          /\ select_info(1).reasons[k].max_active_contacts = 1

(* C22: an update_status to closed of a new or in_progress contact that has    *)
(* operator X lowers the workload of X by exactly one and changes no other     *)
(* operator's workload; if X is active and its workload was equal to its       *)
(* capacity, the next selection on each of its sources can return X.           *)
C22_ClosingFreesCapacity ==
    [][last'.op = "update_status" =>
        \A i \in DOMAIN contacts :
          (/\ contacts[i].status \in ActiveStatuses
           /\ contacts[i].operator_id # NULL
           /\ UpdateStatus(i, "closed")) =>
             \A o \in DOMAIN operators :
                IF o = contacts[i].operator_id
                THEN /\ Workload(o)' = Workload(o) - 1
                     /\ (/\ operators[o].is_active
                          /\ Workload(o) = operators[o].max_active_contacts)
                           => \A s \in DOMAIN sources :
                                 AssignedTo(o, s) => o \in select_operator(s)'
                ELSE Workload(o)' = Workload(o)]_vars

(* Operator 1, the only one of source 1 and of capacity 1, got a second        *)
(* contact after its first one was closed.                                     *)
C22_Witness ==
    /\ last.op = "create" /\ Selected /\ last.sel = 1
    /\ assignments = SingleAssignment
    /\ operators[1].max_active_contacts = 1
    /\ Len(contacts) = 2
    /\ contacts[1].operator_id = 1 /\ contacts[1].status = "closed"
    /\ contacts[2].operator_id = 1 /\ contacts[2].status = "new"

RECURSIVE SumPercent(_)
SumPercent(desc) ==
    IF desc = <<>> THEN 0 ELSE Head(desc).percent + SumPercent(Tail(desc))

(* C24: with at least one eligible operator, the total weight is positive, the *)
(* percentage listed for an operator is the floor of weight * 100 / total, and *)
(* the percentages add up to at most 100 and to more than 100 minus the number *)
(* of eligible operators.                                                      *)
C24_PercentagesFloor ==
    \A s \in DOMAIN sources :
        Eligible(s) # {} =>
           LET desc == distribution_desc(s)
               total == total_weight(s)
           IN /\ total > 0
              /\ Len(desc) = Cardinality(Eligible(s))
              /\ total = SumOver(Eligible(s), [o \in Eligible(s) |-> WeightOf(o, s)])
              /\ \A k \in DOMAIN desc :
                    /\ desc[k].operator_id \in Eligible(s)
                    /\ desc[k].weight = WeightOf(desc[k].operator_id, s)
                    /\ desc[k].weight \in 1..1000
                    /\ desc[k].percent * total <= desc[k].weight * 100
                    /\ desc[k].weight * 100 < (desc[k].percent + 1) * total
              /\ SumPercent(desc) <= 100
              /\ SumPercent(desc) > 100 - Len(desc)

(* After one creation two operators of weights 1 and 2 are eligible and are    *)
(* listed with 33 and 66 per cent, 99 together.                                *)
C24_Witness ==
    /\ last.op = "create" /\ Selected
    /\ Cardinality(Eligible(1)) = 2
    /\ \E j, k \in DOMAIN distribution_desc(1) :
          /\ distribution_desc(1)[j].weight = 1 /\ distribution_desc(1)[j].percent = 33
          /\ distribution_desc(1)[k].weight = 2 /\ distribution_desc(1)[k].percent = 66
    /\ SumPercent(distribution_desc(1)) = 99

(* C25: in every state every operator's workload is at most its               *)
(* max_active_contacts.                                                        *)
C25_WorkloadWithinLimit ==
    \A o \in DOMAIN operators :
        Workload(o) <= operators[o].max_active_contacts

(* C26: a contact's assigned_at is set exactly when its operator_id is not     *)
(* null, and a non-null operator_id names an existing operator, also after the *)
(* assigned operator was deleted.                                              *)
C26_AssignedAtIffOperator ==
    \A i \in DOMAIN contacts :
        /\ (contacts[i].assigned_at # NULL) <=> (contacts[i].operator_id # NULL)
        /\ contacts[i].operator_id # NULL =>
               contacts[i].operator_id \in DOMAIN operators

(* C27: no external_id ever has two leads, also when two create requests with *)
(* the same unseen external_id both looked it up before either committed: the  *)
(* request that commits first inserts the one lead, and the other fails        *)
(* without adding a lead or a contact; a request that found the lead at its    *)
(* lookup adds none and goes on with that lead.                                *)
C27_NoDuplicateLead ==
    /\ [](\A e \in ExtIds : Cardinality(KnownLeads(e)) <= 1)
    /\ [][\A w \in Workers, e \in ExtIds :
             (/\ inflight[w].pc = "looked_up"
              /\ inflight[w].external_id = e
              /\ CreateCommitLead(w)) =>
                IF inflight[w].lead_id # NULL
                THEN /\ Len(leads') = Len(leads)
                     /\ inflight'[w].pc = "resolved"
                     /\ inflight'[w].lead_id = inflight[w].lead_id
                     /\ leads[inflight[w].lead_id].external_id = e
                ELSE IF KnownLeads(e) = {}
                THEN /\ Len(leads') = Len(leads) + 1
                     /\ KnownLeads(e)' = {Len(leads')}
                     /\ inflight'[w].pc = "resolved"
                     /\ inflight'[w].lead_id = Len(leads')
                ELSE /\ leads' = leads
                     /\ contacts' = contacts
                     /\ inflight'[w] = Idle
                     /\ last' = Response("create_error", FALSE, NULL)]_vars

(* Both requests looked "x" up while it was unseen; one has inserted the lead  *)
(* and the other has failed                                                    *)
C27_Witness ==
    /\ last = Response("create_error", FALSE, NULL)
    /\ Cardinality(KnownLeads("x")) = 1
    /\ \E w \in Workers :
          /\ inflight[w].pc \in {"resolved", "selected"}
          /\ inflight[w].lead_id \in KnownLeads("x")
          /\ \A v \in Workers \ {w} : inflight[v] = Idle
    /\ contacts = <<>>

====
